---- MODULE Spec2Model ----
(***************************************************************************)
(* Model of parts of govuk-frontend:                                       *)
(*   - the Checkboxes component (checkboxes.mjs): conditional reveals and  *)
(*     the 'exclusive' ("None of these") behaviour;                        *)
(*   - the ServiceHeader component and its base class                      *)
(*     GOVUKFrontendComponent (service-header.mjs,                         *)
(*     govuk-frontend-component.mjs);                                      *)
(*   - getExamples of the fixture loader (lib/files.js).                   *)
(* The DOM is modelled by the attributes and properties the code reads and *)
(* writes.  An absent attribute is the value Null (getAttribute -> null).  *)
(***************************************************************************)
EXTENDS Integers, Sequences, FiniteSets, TLC

VARIABLES
  \* ---- Checkboxes: the document ------------------------------------
  moduleIsElement,   \* $module instanceof HTMLElement
  inputs,            \* per checkbox: inModule, name, form (owner), exclusive
  elementClass,      \* per id: "absent" | "conditional" | "plain"
  checked,           \* $input.checked
  dataAriaControls,  \* attribute data-aria-controls
  ariaControls,      \* attribute aria-controls
  ariaExpanded,      \* attribute aria-expanded
  conditionalHidden, \* per id: classList has govuk-checkboxes__conditional--hidden
  \* ---- Checkboxes: the instance and its listeners ------------------
  cbPhase,           \* "new" | "constructed" | "initialised"
  cbResult,          \* how the constructor ended: Null | "returned" | "threw"
  thisModule,        \* this.$module is set
  thisInputs,        \* this.$inputs as a set of checkboxes; {} when undefined
  clickListener,     \* $module has the click listener
  pageshowListener,  \* window has the pageshow listener
  lastEvent,         \* the last event the component handled
  \* ---- ServiceHeader ------------------------------------------------
  page,              \* what the page provides to the constructor
  viewportWide,      \* the media query (min-width: tablet) matches
  menuHidden,        \* $menu has the hidden attribute
  buttonHidden,      \* $menuButton has the hidden attribute
  buttonAriaExpanded,\* $menuButton's aria-expanded attribute
  sh,                \* the instance: fields, listeners, outcome
  \* ---- getExamples --------------------------------------------------
  fixtures,          \* the component's fixtures list
  examples,          \* whether getExamples has returned, and the object returned
  \* ---- filterPath and mapPathTo --------------------------------------
  patterns,          \* the minimatch patterns
  entryPath,         \* the entry path handed to the filter or mapper
  callback,          \* the callback handed to mapPathTo
  pathResult         \* what filterPath and mapPathTo returned

cbVars == <<moduleIsElement, inputs, elementClass, checked, dataAriaControls,
            ariaControls, ariaExpanded, conditionalHidden, cbPhase, cbResult,
            thisModule, thisInputs, clickListener, pageshowListener, lastEvent>>
shVars == <<page, viewportWide, menuHidden, buttonHidden, buttonAriaExpanded, sh>>
exVars == <<fixtures, examples>>
fpVars == <<patterns, entryPath, callback, pathResult>>
vars == <<cbVars, shVars, exVars, fpVars>>

Null == "null"

\* JavaScript's Boolean.prototype.toString
BoolToString(b) == IF b THEN "true" ELSE "false"

(***************************************************************************)
(* Checkboxes                                                              *)
(***************************************************************************)

\* Number of checkbox inputs in the document.
NumInputs == 3

Inputs == 1..NumInputs
Names == {"n1", "n2"}
Forms == {"f1", "f2"}

\* The id that checkbox i's markup refers to.
IdOf(i) == "conditional-" \o ToString(i)
Ids == {IdOf(i) : i \in Inputs}

\* The static attributes of one checkbox.  Name n2 occurs with form f1 only.
InputKinds ==
  {k \in [inModule : BOOLEAN, name : Names, form : Forms, exclusive : BOOLEAN] :
     ~(k.name = "n2" /\ k.form = "f2")}

\* A rank of the kinds, for listing documents up to the order of checkboxes
\* whose order has no effect.
KindRank(k) ==
    (IF k.inModule THEN 0 ELSE 6)
  + (IF k.name = "n1" /\ k.form = "f1" THEN 0 ELSE IF k.form = "f2" THEN 2 ELSE 4)
  + (IF k.exclusive THEN 1 ELSE 0)

\* How the markup associates checkboxes with conditionally revealed content.
Layouts == {"none", "own", "shared", "promoted", "missing", "empty", "plain"}

LayoutData(layout, i) ==
  CASE layout \in {"own", "missing", "plain"} -> IdOf(i)
    [] layout = "shared" -> IdOf(1)
    [] layout = "empty" -> ""
    [] OTHER -> Null

LayoutAria(layout, i) == IF layout = "promoted" THEN IdOf(i) ELSE Null

LayoutClass(layout) ==
  CASE layout \in {"own", "shared", "promoted"} -> "conditional"
    [] layout = "plain" -> "plain"
    [] OTHER -> "absent"

\* Whether the document of kinds ins is listed.  The document order of the
\* checkboxes (querySelectorAll) has an effect where several checkboxes of the
\* module control one element: syncAllConditionalReveals synchronises them in
\* that order and the element follows the last of them.  There every
\* checkbox of the module occurs as the last one; the order of the others has
\* no effect and documents are listed by rank.
Listed(layout, ins) ==
  LET inModule == {i \in Inputs : ins[i].inModule}
      last == IF layout = "shared" /\ inModule # {}
              THEN CHOOSE i \in inModule : \A j \in inModule : j <= i
              ELSE 0
  IN \A i, j \in Inputs :
       i < j => \/ j = last /\ ins[i].inModule
                \/ KindRank(ins[i]) <= KindRank(ins[j])

\* The part of the DOM the component reads and writes, as one value.
Dom == [checked |-> checked, dataAriaControls |-> dataAriaControls,
        ariaControls |-> ariaControls, ariaExpanded |-> ariaExpanded,
        hidden |-> conditionalHidden]

SetDom(d) ==
  /\ checked' = d.checked
  /\ dataAriaControls' = d.dataAriaControls
  /\ ariaControls' = d.ariaControls
  /\ ariaExpanded' = d.ariaExpanded
  /\ conditionalHidden' = d.hidden

\* document.getElementById(id) finds an element
ElementExists(id) == id \in Ids /\ elementClass[id] # "absent"

\* !value for an attribute value (null and '' are falsy)
Falsy(value) == value = Null \/ value = ""

\* The same callback promoting without looking the target up.
promote_NoLookup(dom, i) ==
  LET targetId == dom.dataAriaControls[i] IN
  IF Falsy(targetId)
  THEN dom
  ELSE [dom EXCEPT !.ariaControls[i] = targetId, !.dataAriaControls[i] = Null]

\* init, the $inputs.forEach callback: promote data-aria-controls of one input
promote(dom, i) ==
  LET targetId == dom.dataAriaControls[i] IN
  IF Falsy(targetId) \/ ~ElementExists(targetId)
  THEN dom
  ELSE [dom EXCEPT !.ariaControls[i] = targetId, !.dataAriaControls[i] = Null]

syncConditionalRevealWithInputState(dom, i) ==
  LET targetId == dom.ariaControls[i] IN
  IF Falsy(targetId) THEN dom
  ELSE IF ElementExists(targetId) /\ elementClass[targetId] = "conditional"
       THEN [dom EXCEPT !.ariaExpanded[i] = BoolToString(dom.checked[i]),
                        !.hidden[targetId] = ~dom.checked[i]]
       ELSE dom

\* init, $inputs.forEach: the members of S in document order, from j on
RECURSIVE promoteEach(_, _, _)
promoteEach(dom, S, j) ==
  IF j > NumInputs THEN dom
  ELSE promoteEach(IF j \in S THEN promote(dom, j) ELSE dom, S, j + 1)

\* syncAllConditionalReveals, this.$inputs.forEach: the members of S in
\* document order, from j on
RECURSIVE syncEach(_, _, _)
syncEach(dom, S, j) ==
  IF j > NumInputs THEN dom
  ELSE syncEach(IF j \in S THEN syncConditionalRevealWithInputState(dom, j) ELSE dom,
                S, j + 1)

\* A synchronisation that does nothing.
syncAllConditionalReveals_None(dom, S) == dom

syncAllConditionalReveals(dom, S) == syncEach(dom, S, 1)

\* The body of the two unchecking loops: uncheck one input and synchronise
\* its reveal.
unCheck(dom, j) ==
  syncConditionalRevealWithInputState([dom EXCEPT !.checked[j] = FALSE], j)

\* forEach of the unchecking loops: the members of S in document order, from
\* j on
RECURSIVE unCheckEach(_, _, _)
unCheckEach(dom, S, j) ==
  IF j > NumInputs THEN dom
  ELSE unCheckEach(IF j \in S THEN unCheck(dom, j) ELSE dom, S, j + 1)

\* Unchecking only the same-named checkboxes that are exclusive themselves.
unCheckAllInputsExcept_OnlyExclusive(dom, input) ==
  LET allInputsWithSameName ==
        {j \in Inputs : inputs[j].exclusive /\ inputs[j].name = inputs[input].name}
      hasSameFormOwner(j) == inputs[input].form = inputs[j].form
  IN unCheckEach(dom, {j \in allInputsWithSameName :
                         hasSameFormOwner(j) /\ j # input}, 1)

\* Unchecking without synchronising the reveal of the unchecked input.
unCheckAllInputsExcept_NoSync(dom, input) ==
  LET allInputsWithSameName == {j \in Inputs : inputs[j].name = inputs[input].name}
      hasSameFormOwner(j) == inputs[input].form = inputs[j].form
  IN [dom EXCEPT !.checked =
        [j \in Inputs |->
           IF j \in allInputsWithSameName /\ hasSameFormOwner(j) /\ j # input
           THEN FALSE ELSE dom.checked[j]]]

\* Unchecking the same-named checkboxes of every form.
unCheckAllInputsExcept_AnyForm(dom, input) ==
  LET allInputsWithSameName == {j \in Inputs : inputs[j].name = inputs[input].name}
  IN unCheckEach(dom, {j \in allInputsWithSameName : j # input}, 1)

unCheckAllInputsExcept(dom, input) ==
  LET allInputsWithSameName == {j \in Inputs : inputs[j].name = inputs[input].name}
      hasSameFormOwner(j) == inputs[input].form = inputs[j].form
  IN unCheckEach(dom, {j \in allInputsWithSameName :
                         hasSameFormOwner(j) /\ j # input}, 1)

\* Unchecking every other same-named checkbox of the form, exclusive or not.
unCheckExclusiveInputs_All(dom, input) ==
  LET allInputsWithSameName == {j \in Inputs : inputs[j].name = inputs[input].name}
      hasSameFormOwner(j) == inputs[input].form = inputs[j].form
  IN unCheckEach(dom, {j \in allInputsWithSameName :
                         hasSameFormOwner(j) /\ j # input}, 1)

\* Leaving the exclusive checkboxes as they are.
unCheckExclusiveInputs_Keep(dom, input) == dom

unCheckExclusiveInputs(dom, input) ==
  LET allInputsWithSameNameAndExclusiveBehaviour ==
        {j \in Inputs : inputs[j].exclusive /\ inputs[j].name = inputs[input].name}
      hasSameFormOwner(j) == inputs[input].form = inputs[j].form
  IN unCheckEach(dom, {j \in allInputsWithSameNameAndExclusiveBehaviour :
                         hasSameFormOwner(j)}, 1)

\* The click target when the click is not on a checkbox input.
NotAnInput == 0

\* A handler that runs the exclusive behaviour for an unchecked input too.
handleClick_AlsoUnchecked(dom, clickedInput) ==
  IF clickedInput = NotAnInput THEN dom
  ELSE
    LET hasAriaControls == ~Falsy(dom.ariaControls[clickedInput])
        d1 == IF hasAriaControls
              THEN syncConditionalRevealWithInputState(dom, clickedInput)
              ELSE dom
    IN IF inputs[clickedInput].exclusive
       THEN unCheckAllInputsExcept(d1, clickedInput)
       ELSE unCheckExclusiveInputs(d1, clickedInput)

handleClick(dom, clickedInput) ==
  IF clickedInput = NotAnInput THEN dom
  ELSE
    LET hasAriaControls == ~Falsy(dom.ariaControls[clickedInput])
        d1 == IF hasAriaControls
              THEN syncConditionalRevealWithInputState(dom, clickedInput)
              ELSE dom
    IN IF ~d1.checked[clickedInput] THEN d1
       ELSE IF inputs[clickedInput].exclusive
            THEN unCheckAllInputsExcept(d1, clickedInput)
            ELSE unCheckExclusiveInputs(d1, clickedInput)

\* lastEvent: the kind of event, its target, the other checkboxes that the
\* handler unchecked, and the checkboxes whose aria-expanded it changed.
NoEvent == [type |-> "none", target |-> NotAnInput, unchecked |-> {}, synced |-> {}]

InitCheckboxesVars ==
  /\ \E layout \in Layouts :
       /\ \E ins \in [Inputs -> InputKinds] :
            /\ Listed(layout, ins)
            /\ inputs = ins
       /\ dataAriaControls = [i \in Inputs |-> LayoutData(layout, i)]
       /\ ariaControls = [i \in Inputs |-> LayoutAria(layout, i)]
       /\ elementClass = [id \in Ids |-> LayoutClass(layout)]
       /\ \E h \in BOOLEAN :
            /\ LayoutClass(layout) # "conditional" => h = FALSE
            /\ conditionalHidden = [id \in Ids |-> h]
  /\ moduleIsElement \in BOOLEAN
  /\ moduleIsElement = FALSE => \A i \in Inputs : ~inputs[i].inModule
  /\ checked \in [Inputs -> BOOLEAN]
  /\ ariaExpanded = [i \in Inputs |-> Null]
  /\ cbPhase = "new"
  /\ cbResult = Null
  /\ thisModule = FALSE
  /\ thisInputs = {}
  /\ clickListener = FALSE
  /\ pageshowListener = FALSE
  /\ lastEvent = NoEvent

\* The component is not on the page.
IdleCheckboxesVars ==
  /\ inputs = [i \in Inputs |-> [inModule |-> FALSE, name |-> "n1", form |-> "f1",
                                 exclusive |-> FALSE]]
  /\ moduleIsElement = FALSE
  /\ checked = [i \in Inputs |-> FALSE]
  /\ dataAriaControls = [i \in Inputs |-> Null]
  /\ ariaControls = [i \in Inputs |-> Null]
  /\ elementClass = [id \in Ids |-> "absent"]
  /\ conditionalHidden = [id \in Ids |-> FALSE]
  /\ ariaExpanded = [i \in Inputs |-> Null]
  /\ cbPhase = "absent"
  /\ cbResult = Null
  /\ thisModule = FALSE
  /\ thisInputs = {}
  /\ clickListener = FALSE
  /\ pageshowListener = FALSE
  /\ lastEvent = NoEvent

\* new Checkboxes($module)
Checkboxes ==
  /\ cbPhase = "new"
  /\ cbPhase' = "constructed"
  /\ cbResult' = "returned"
  /\ LET queried == {i \in Inputs : inputs[i].inModule} IN
     IF ~moduleIsElement \/ queried = {}
     THEN UNCHANGED <<thisModule, thisInputs>>
     ELSE thisModule' = TRUE /\ thisInputs' = queried
  /\ UNCHANGED <<moduleIsElement, inputs, elementClass, checked, dataAriaControls,
                 ariaControls, ariaExpanded, conditionalHidden, clickListener,
                 pageshowListener, lastEvent>>
  /\ UNCHANGED <<shVars, exVars, fpVars>>

\* Checkboxes.prototype.init
CheckboxesInit ==
  /\ cbPhase = "constructed"
  /\ cbPhase' = "initialised"
  /\ IF ~thisModule \/ thisInputs = {}
     THEN UNCHANGED <<checked, dataAriaControls, ariaControls, ariaExpanded,
                      conditionalHidden, clickListener, pageshowListener>>
     ELSE /\ SetDom(syncAllConditionalReveals(
                      promoteEach(Dom, thisInputs, 1), thisInputs))
          /\ pageshowListener' = TRUE
          /\ clickListener' = TRUE
  /\ UNCHANGED <<moduleIsElement, inputs, elementClass, cbResult, thisModule,
                 thisInputs, lastEvent>>
  /\ UNCHANGED <<shVars, exVars, fpVars>>

\* The user clicks checkbox c of the module: the browser toggles it, then the
\* click listener of $module runs handleClick.
Click(c) ==
  /\ clickListener
  /\ inputs[c].inModule
  /\ LET after == handleClick([Dom EXCEPT !.checked[c] = ~checked[c]], c) IN
       /\ SetDom(after)
       /\ lastEvent' = [type |-> "click", target |-> c,
                        unchecked |-> {j \in Inputs \ {c} :
                                         checked[j] /\ ~after.checked[j]},
                        synced |-> {j \in Inputs :
                                      after.ariaExpanded[j] # ariaExpanded[j]}]
  /\ UNCHANGED <<moduleIsElement, inputs, elementClass, cbPhase, cbResult,
                 thisModule, thisInputs, clickListener, pageshowListener>>
  /\ UNCHANGED <<shVars, exVars, fpVars>>

\* A click inside the module on something that is not a checkbox input.
ClickElsewhere ==
  /\ clickListener
  /\ SetDom(handleClick(Dom, NotAnInput))
  /\ lastEvent' = [NoEvent EXCEPT !.type = "click"]
  /\ UNCHANGED <<moduleIsElement, inputs, elementClass, cbPhase, cbResult,
                 thisModule, thisInputs, clickListener, pageshowListener>>
  /\ UNCHANGED <<shVars, exVars, fpVars>>

\* The user clicks a checkbox outside the module: no listener of the
\* component runs.
ClickOutside(c) ==
  /\ cbPhase # "absent"
  /\ ~inputs[c].inModule
  /\ checked' = [checked EXCEPT ![c] = ~checked[c]]
  /\ UNCHANGED <<moduleIsElement, inputs, elementClass, dataAriaControls,
                 ariaControls, ariaExpanded, conditionalHidden, cbPhase, cbResult,
                 thisModule, thisInputs, clickListener, pageshowListener, lastEvent>>
  /\ UNCHANGED <<shVars, exVars, fpVars>>

\* The window's pageshow event.
PageShow ==
  /\ pageshowListener
  /\ LET after == syncAllConditionalReveals(Dom, thisInputs) IN
       /\ SetDom(after)
       /\ lastEvent' = [NoEvent EXCEPT
                          !.type = "pageshow",
                          !.synced = {j \in Inputs :
                                        after.ariaExpanded[j] # ariaExpanded[j]}]
  /\ UNCHANGED <<moduleIsElement, inputs, elementClass, cbPhase, cbResult,
                 thisModule, thisInputs, clickListener, pageshowListener>>
  /\ UNCHANGED <<shVars, exVars, fpVars>>

\* The browser restores the state of the form controls after navigating
\* back: checked values change, no click is dispatched and no listener of the
\* component runs.  Two restorations with no event between them are one
\* restoration.
RestoreFormState ==
  /\ cbPhase = "initialised"
  /\ lastEvent.type # "restore"
  /\ \E restored \in [Inputs -> BOOLEAN] :
       /\ restored # checked
       /\ checked' = restored
  /\ lastEvent' = [NoEvent EXCEPT !.type = "restore"]
  /\ UNCHANGED <<moduleIsElement, inputs, elementClass, dataAriaControls,
                 ariaControls, ariaExpanded, conditionalHidden, cbPhase, cbResult,
                 thisModule, thisInputs, clickListener, pageshowListener>>
  /\ UNCHANGED <<shVars, exVars, fpVars>>

NextCheckboxes ==
  \/ Checkboxes
  \/ CheckboxesInit
  \/ \E c \in Inputs : Click(c)
  \/ ClickElsewhere
  \/ \E c \in Inputs : ClickOutside(c)
  \/ PageShow

(***************************************************************************)
(* ServiceHeader and GOVUKFrontendComponent                                *)
(***************************************************************************)

\* The id of the navigation menu element of the page.
MenuId == "navigation"

SupportMessages == {"OK", "GOV.UK Frontend is not supported in this browser"}

\* What the page offers: the root element, the toggle button, the button's
\* aria-controls, the tablet breakpoint custom property, the support level
\* message, and whether MediaQueryList has addEventListener.
Pages ==
  [module : BOOLEAN, menuButton : BOOLEAN,
   ariaControls : {Null, "", MenuId, "no-such-id"},
   breakpoint : {Null, "40.0625em"},
   support : SupportMessages,
   mqlAddEventListener : BOOLEAN]

\* The instance before its constructor ran.
NewServiceHeader ==
  [phase |-> "new", thrown |-> Null, supportChecks |-> 0,
   module |-> FALSE, menuButton |-> FALSE, menu |-> FALSE,
   menuIsOpen |-> FALSE, mql |-> FALSE,
   changeListener |-> Null, clickListener |-> FALSE, handled |-> "none"]

\* The instance together with the attributes it writes.
Header == [this |-> sh, menuHidden |-> menuHidden, buttonHidden |-> buttonHidden,
           ariaExpanded |-> buttonAriaExpanded]

SetHeader(h) ==
  /\ sh' = h.this
  /\ menuHidden' = h.menuHidden
  /\ buttonHidden' = h.buttonHidden
  /\ buttonAriaExpanded' = h.ariaExpanded

Throw(h, error) == [h EXCEPT !.this.phase = "threw", !.this.thrown = error]

\* A support check that accepts every browser.
checkSupport_Never(h) ==
  [h EXCEPT !.this.supportChecks = @ + 1]

\* GOVUKFrontendComponent.checkSupport
checkSupport(h) ==
  LET supportLevelMessage == page.support
      h1 == [h EXCEPT !.this.supportChecks = @ + 1]
  IN IF supportLevelMessage # "OK" THEN Throw(h1, "SupportError") ELSE h1

\* checkMode that leaves the button alone in a wide viewport.
checkMode_WideKeepsButton(h, matches) ==
  IF ~h.this.mql \/ ~h.this.menu \/ ~h.this.menuButton THEN h
  ELSE IF matches
       THEN [h EXCEPT !.menuHidden = FALSE]
       ELSE [h EXCEPT !.buttonHidden = FALSE,
                      !.ariaExpanded = BoolToString(h.this.menuIsOpen),
                      !.menuHidden = ~h.this.menuIsOpen]

\* checkMode that shows the menu in a narrow viewport whatever menuIsOpen is.
checkMode_NarrowShowsMenu(h, matches) ==
  IF ~h.this.mql \/ ~h.this.menu \/ ~h.this.menuButton THEN h
  ELSE IF matches
       THEN [h EXCEPT !.menuHidden = FALSE, !.buttonHidden = TRUE]
       ELSE [h EXCEPT !.buttonHidden = FALSE,
                      !.ariaExpanded = BoolToString(h.this.menuIsOpen),
                      !.menuHidden = FALSE]

\* checkMode that takes the menu for closed once the viewport is wide.
checkMode_WideClosesMenu(h, matches) ==
  IF ~h.this.mql \/ ~h.this.menu \/ ~h.this.menuButton THEN h
  ELSE IF matches
       THEN [h EXCEPT !.menuHidden = FALSE, !.buttonHidden = TRUE,
                      !.this.menuIsOpen = FALSE]
       ELSE [h EXCEPT !.buttonHidden = FALSE,
                      !.ariaExpanded = BoolToString(h.this.menuIsOpen),
                      !.menuHidden = ~h.this.menuIsOpen]

\* ServiceHeader.checkMode; matches is this.mql.matches
checkMode(h, matches) ==
  IF ~h.this.mql \/ ~h.this.menu \/ ~h.this.menuButton THEN h
  ELSE IF matches
       THEN [h EXCEPT !.menuHidden = FALSE, !.buttonHidden = TRUE]
       ELSE [h EXCEPT !.buttonHidden = FALSE,
                      !.ariaExpanded = BoolToString(h.this.menuIsOpen),
                      !.menuHidden = ~h.this.menuIsOpen]

\* setupResponsiveChecks that looks for the breakpoint after its other work.
setupResponsiveChecks_ThrowLate(h, matches) ==
  LET breakpoint == page.breakpoint
      h1 == [h EXCEPT !.this.mql = TRUE,
                      !.this.changeListener =
                         IF page.mqlAddEventListener THEN "addEventListener"
                                                     ELSE "addListener"]
      h2 == checkMode(h1, matches)
  IN IF Falsy(breakpoint) THEN Throw(h2, "ElementError") ELSE h2

\* ServiceHeader.setupResponsiveChecks
setupResponsiveChecks(h, matches) ==
  LET breakpoint == page.breakpoint IN
  IF Falsy(breakpoint) THEN Throw(h, "ElementError")
  ELSE LET h1 == [h EXCEPT !.this.mql = TRUE,
                           !.this.changeListener =
                              IF page.mqlAddEventListener THEN "addEventListener"
                                                          ELSE "addListener"]
       IN checkMode(h1, matches)

\* A constructor that accepts a button naming no menu element.
constructor_NoMenuCheck(h, matches) ==
  LET h0 == checkSupport(h) IN
  IF h0.this.thrown # Null THEN h0
  ELSE
    LET h1 == [h0 EXCEPT !.this.menuIsOpen = FALSE, !.this.mql = FALSE] IN
    IF ~page.module THEN Throw(h1, "ElementError")
    ELSE
      LET h2 == [h1 EXCEPT !.this.module = TRUE] IN
      IF ~page.menuButton THEN [h2 EXCEPT !.this.phase = "constructed"]
      ELSE
        LET menuId == page.ariaControls IN
        IF Falsy(menuId) THEN Throw(h2, "ElementError")
        ELSE IF menuId # MenuId THEN [h2 EXCEPT !.this.phase = "constructed"]
        ELSE
          LET h3 == [h2 EXCEPT !.this.menu = TRUE, !.this.menuButton = TRUE]
              h4 == setupResponsiveChecks(h3, matches)
          IN IF h4.this.thrown # Null THEN h4
             ELSE [h4 EXCEPT !.this.clickListener = TRUE,
                             !.this.phase = "constructed"]

\* ServiceHeader.constructor; matches is what window.matchMedia reports
constructor(h, matches) ==
  LET h0 == checkSupport(h) IN
  IF h0.this.thrown # Null THEN h0
  ELSE
    LET h1 == [h0 EXCEPT !.this.menuIsOpen = FALSE, !.this.mql = FALSE] IN
    IF ~page.module THEN Throw(h1, "ElementError")
    ELSE
      LET h2 == [h1 EXCEPT !.this.module = TRUE] IN
      IF ~page.menuButton THEN [h2 EXCEPT !.this.phase = "constructed"]
      ELSE
        LET menuId == page.ariaControls IN
        IF Falsy(menuId) THEN Throw(h2, "ElementError")
        ELSE IF menuId # MenuId THEN Throw(h2, "ElementError")
        ELSE
          LET h3 == [h2 EXCEPT !.this.menu = TRUE, !.this.menuButton = TRUE]
              h4 == setupResponsiveChecks(h3, matches)
          IN IF h4.this.thrown # Null THEN h4
             ELSE [h4 EXCEPT !.this.clickListener = TRUE,
                             !.this.phase = "constructed"]

\* ServiceHeader.handleMenuButtonClick
handleMenuButtonClick(h, matches) ==
  checkMode([h EXCEPT !.this.menuIsOpen = ~h.this.menuIsOpen], matches)

InitServiceHeaderVars ==
  /\ page \in Pages
  /\ viewportWide \in BOOLEAN
  /\ menuHidden \in BOOLEAN
  /\ buttonHidden \in BOOLEAN
  /\ buttonAriaExpanded \in {Null, "true", "false"}
  /\ sh = NewServiceHeader

\* The component is not on the page.
IdleServiceHeaderVars ==
  /\ page = [module |-> FALSE, menuButton |-> FALSE, ariaControls |-> Null,
             breakpoint |-> Null, support |-> "OK", mqlAddEventListener |-> TRUE]
  /\ viewportWide = FALSE
  /\ menuHidden = FALSE
  /\ buttonHidden = FALSE
  /\ buttonAriaExpanded = Null
  /\ sh = [NewServiceHeader EXCEPT !.phase = "absent"]

\* new ServiceHeader($module)
ServiceHeader ==
  /\ sh.phase = "new"
  /\ SetHeader(constructor(Header, viewportWide))
  /\ UNCHANGED <<page, viewportWide>>
  /\ UNCHANGED <<cbVars, exVars, fpVars>>

\* The click listener of the menu button.
MenuButtonClick ==
  /\ sh.clickListener
  /\ SetHeader([handleMenuButtonClick(Header, viewportWide)
                  EXCEPT !.this.handled = "click"])
  /\ UNCHANGED <<page, viewportWide>>
  /\ UNCHANGED <<cbVars, exVars, fpVars>>

\* The viewport crosses the tablet breakpoint: the media query list's change
\* listener, when there is one, runs checkMode.
MediaChange ==
  /\ sh.phase # "absent"
  /\ viewportWide' = ~viewportWide
  /\ IF sh.changeListener # Null
     THEN SetHeader([checkMode(Header, ~viewportWide)
                       EXCEPT !.this.handled = "change"])
     ELSE UNCHANGED <<sh, menuHidden, buttonHidden, buttonAriaExpanded>>
  /\ UNCHANGED page
  /\ UNCHANGED <<cbVars, exVars, fpVars>>

NextServiceHeader ==
  \/ ServiceHeader
  \/ MenuButtonClick
  \/ MediaChange

(***************************************************************************)
(* getExamples                                                             *)
(***************************************************************************)

\* Longest fixtures list considered.
MaxFixtures == 3

FixtureNames == {"default", "with hint", "with error"}
FixtureOptions == {"options-a", "options-b"}
Fixtures == [name : FixtureNames, options : FixtureOptions]

RECURSIVE SeqsUpTo(_, _)
SeqsUpTo(S, n) ==
  IF n = 0 THEN {<<>>}
  ELSE LET shorter == SeqsUpTo(S, n - 1) IN
       shorter \cup {Append(q, x) : q \in {r \in shorter : Len(r) = n - 1}, x \in S}

\* An assignment that keeps the value a key already has.
AssignProperty_KeepFirst(object, key, value) ==
  [k \in DOMAIN object \cup {key} |->
     IF k \in DOMAIN object THEN object[k] ELSE value]

\* examples[key] = value on a plain object
AssignProperty(object, key, value) ==
  [k \in DOMAIN object \cup {key} |-> IF k = key THEN value ELSE object[k]]

\* The object's own keys
ObjectKeys(object) == DOMAIN object

\* getExamples, the for...of loop from position i on
RECURSIVE getExamplesLoop(_, _, _)
getExamplesLoop(fs, object, i) ==
  IF i > Len(fs) THEN object
  ELSE getExamplesLoop(fs, AssignProperty(object, fs[i].name, fs[i].options), i + 1)

\* getExamples after its await: the loop over the list and the return
getExamples(fs) == getExamplesLoop(fs, <<>>, 1)

\* fixtures is the list getComponentFixtures resolves with, an object other
\* code holds too.  examples: how far the call is, the object returned, the
\* list as it was at the call and the list the loop went through.
InitExamplesVars ==
  /\ fixtures \in SeqsUpTo(Fixtures, MaxFixtures)
  /\ examples = [phase |-> "pending", object |-> <<>>, atCall |-> <<>>, read |-> <<>>]

IdleExamplesVars ==
  /\ fixtures = <<>>
  /\ examples = [phase |-> "absent", object |-> <<>>, atCall |-> <<>>, read |-> <<>>]

\* getExamples(componentName) is called: it runs up to its await and returns
\* a pending promise.
GetExamples ==
  /\ examples.phase = "pending"
  /\ examples' = [examples EXCEPT !.phase = "awaiting", !.atCall = fixtures]
  /\ UNCHANGED fixtures
  /\ UNCHANGED <<cbVars, shVars, fpVars>>

\* The awaited promise is fulfilled and getExamples goes on: it loops over
\* the list as it is now and resolves its promise with the object.
GetExamplesResume ==
  /\ examples.phase = "awaiting"
  /\ examples' = [examples EXCEPT !.phase = "returned",
                                  !.object = getExamples(fixtures),
                                  !.read = fixtures]
  /\ UNCHANGED fixtures
  /\ UNCHANGED <<cbVars, shVars, fpVars>>

\* Other code that holds the list appends a fixture to it; it may run before
\* the call, while getExamples awaits, and after it has returned.
AppendFixture ==
  /\ examples.phase # "absent"
  /\ Len(fixtures) < MaxFixtures
  /\ \E fixture \in Fixtures : fixtures' = Append(fixtures, fixture)
  /\ UNCHANGED examples
  /\ UNCHANGED <<cbVars, shVars, fpVars>>

NextExamples ==
  \/ GetExamples
  \/ GetExamplesResume
  \/ AppendFixture

(***************************************************************************)
(* filterPath and mapPathTo                                                *)
(***************************************************************************)

\* Longest pattern list considered.
MaxPatterns == 2

\* An entry path dir/name.ext, by its parts.
EntryPaths == [dir : {"src", "dist"}, name : {"a", "b"}, ext : {".mjs", ".js"}]

\* The pattern dir/name.ext, where dir may be ** and name may be *.
Patterns == [dir : {"**", "src"}, name : {"*", "a"}, ext : {".mjs", ".js"}]

\* minimatch(entryPath, pattern) for these paths and patterns
Minimatch(path, pattern) ==
  /\ pattern.dir = "**" \/ pattern.dir = path.dir
  /\ pattern.name = "*" \/ pattern.name = path.name
  /\ pattern.ext = path.ext

\* path.parse(entryPath)
parse(path) ==
  [dir |-> path.dir, base |-> path.name \o path.ext,
   name |-> path.name, ext |-> path.ext]

\* The callbacks handed to mapPathTo:
\*   "min":  ({ dir, name }) => join(dir, `${name}.min.js`)
\*   "dist": ({ base }) => join('dist', base)
Callbacks == {"min", "dist"}

Callback(cb, file) ==
  IF cb = "min"
  THEN [dir |-> file.dir, name |-> file.name, ext |-> ".min.js"]
  ELSE [dir |-> "dist", name |-> file.name, ext |-> file.ext]

\* patterns.every(...), from position i on
RECURSIVE every(_, _, _)
every(ps, path, i) ==
  IF i > Len(ps) THEN TRUE
  ELSE IF ~Minimatch(path, ps[i]) THEN FALSE
       ELSE every(ps, path, i + 1)

\* A filter that starts at the second pattern.
filterPath_FromSecond(ps, path) == every(ps, path, 2)

\* filterPath(patterns)(entryPath)
filterPath(ps, path) == every(ps, path, 1)

\* mapPathTo(patterns, callback)(entryPath)
mapPathTo(ps, cb, path) ==
  LET isMatch == filterPath(ps, path) IN
  IF isMatch THEN Callback(cb, parse(path)) ELSE path

InitPathsVars ==
  /\ patterns \in SeqsUpTo(Patterns, MaxPatterns)
  /\ entryPath \in EntryPaths
  /\ callback \in Callbacks
  /\ pathResult = [phase |-> "pending", filtered |-> {}, mapped |-> {}]

IdlePathsVars ==
  /\ patterns = <<>>
  /\ entryPath = [dir |-> "src", name |-> "a", ext |-> ".js"]
  /\ callback = "min"
  /\ pathResult = [phase |-> "absent", filtered |-> {}, mapped |-> {}]

\* filterPath(patterns)(entryPath); pathResult.filtered holds the value returned
FilterPath ==
  /\ pathResult.phase = "pending"
  /\ pathResult.filtered = {}
  /\ pathResult' = [pathResult EXCEPT !.filtered = {filterPath(patterns, entryPath)}]
  /\ UNCHANGED <<patterns, entryPath, callback>>
  /\ UNCHANGED <<cbVars, shVars, exVars>>

\* mapPathTo(patterns, callback)(entryPath); pathResult.mapped holds the value
\* returned
MapPathTo ==
  /\ pathResult.phase = "pending"
  /\ pathResult.mapped = {}
  /\ pathResult' = [pathResult EXCEPT
                      !.mapped = {mapPathTo(patterns, callback, entryPath)}]
  /\ UNCHANGED <<patterns, entryPath, callback>>
  /\ UNCHANGED <<cbVars, shVars, exVars>>

NextPaths ==
  \/ FilterPath
  \/ MapPathTo

(***************************************************************************)
(* Specifications: one per component, the other components idle            *)
(***************************************************************************)

InitCheckboxes ==
  InitCheckboxesVars /\ IdleServiceHeaderVars /\ IdleExamplesVars /\ IdlePathsVars
SpecCheckboxes ==
  InitCheckboxes /\ [][NextCheckboxes]_vars

\* Navigating back to the page: the component is constructed and initialised,
\* the browser restores the form state and fires pageshow, and no click is
\* dispatched.
NextRestore ==
  \/ Checkboxes
  \/ CheckboxesInit
  \/ RestoreFormState
  \/ PageShow
SpecRestore ==
  InitCheckboxes /\ [][NextRestore]_vars

InitServiceHeader ==
  IdleCheckboxesVars /\ InitServiceHeaderVars /\ IdleExamplesVars /\ IdlePathsVars
SpecServiceHeader ==
  InitServiceHeader /\ [][NextServiceHeader]_vars

InitExamples ==
  IdleCheckboxesVars /\ IdleServiceHeaderVars /\ InitExamplesVars /\ IdlePathsVars

InitPaths ==
  IdleCheckboxesVars /\ IdleServiceHeaderVars /\ IdleExamplesVars /\ InitPathsVars
SpecPaths == InitPaths /\ [][NextPaths]_vars
SpecExamples ==
  InitExamples /\ [][NextExamples]_vars

\* The components side by side: each behaviour runs one of them.
Init == InitCheckboxes \/ InitServiceHeader \/ InitExamples \/ InitPaths
Next == NextCheckboxes \/ NextServiceHeader \/ NextExamples \/ NextPaths
Spec == Init /\ [][Next]_vars

(***************************************************************************)
(* Properties                                                              *)
(***************************************************************************)

SameName(i, j) == inputs[i].name = inputs[j].name
SameForm(i, j) == inputs[i].form = inputs[j].form

\* Checkbox i has an aria-controls that names a conditional reveal.
Reveals(i) ==
  /\ ~Falsy(ariaControls[i])
  /\ ElementExists(ariaControls[i])
  /\ elementClass[ariaControls[i]] = "conditional"

\* No other checkbox of the document controls the element checkbox i controls.
SoleController(i) == \A j \in Inputs \ {i} : ariaControls[j] # ariaControls[i]

\* C1 as stated: when handleClick has processed a click that checked an
\* exclusive checkbox, the clicked checkbox is checked and every other
\* checkbox of the document with the same name is unchecked.
C1_AllSameNamedUnchecked ==
  [][\A c \in Inputs :
       (inputs[c].exclusive /\ ~checked[c] /\ Click(c)) =>
         /\ checked'[c]
         /\ \A j \in Inputs \ {c} : SameName(c, j) => ~checked'[j]]_vars

\* C1 amended: when handleClick has processed a click that checked an
\* exclusive checkbox, the clicked checkbox is checked and every other
\* checkbox with the same name and the same form owner is unchecked.
C1_SameFormUnchecked ==
  [][\A c \in Inputs :
       (inputs[c].exclusive /\ ~checked[c] /\ Click(c)) =>
         /\ checked'[c]
         /\ \A j \in Inputs \ {c} :
              (SameName(c, j) /\ SameForm(c, j)) => ~checked'[j]]_vars

\* A click checked an exclusive checkbox and the handler unchecked a
\* non-exclusive checkbox of the same name and form.
C1_Witness ==
  /\ lastEvent.type = "click"
  /\ lastEvent.target # NotAnInput
  /\ inputs[lastEvent.target].exclusive
  /\ checked[lastEvent.target]
  /\ \E j \in lastEvent.unchecked :
       /\ ~inputs[j].exclusive
       /\ SameName(lastEvent.target, j) /\ SameForm(lastEvent.target, j)
       /\ ~checked[j]

\* C2: when handleClick has processed a click that checked a non-exclusive
\* checkbox, every exclusive checkbox with the same name and form owner is
\* unchecked and every non-exclusive checkbox has the checked value it had
\* when the handler started.
C2_ExclusiveUncheckedOthersKept ==
  [][\A c \in Inputs :
       (~inputs[c].exclusive /\ ~checked[c] /\ Click(c)) =>
         /\ checked'[c]
         /\ \A j \in Inputs :
              (inputs[j].exclusive /\ SameName(c, j) /\ SameForm(c, j))
                => ~checked'[j]
         /\ \A j \in Inputs \ {c} :
              ~inputs[j].exclusive => checked'[j] = checked[j]]_vars

\* A click checked a non-exclusive checkbox, the handler unchecked an
\* exclusive one, and another non-exclusive checkbox of the same name and
\* form is still checked.
C2_Witness ==
  /\ lastEvent.type = "click"
  /\ lastEvent.target # NotAnInput
  /\ ~inputs[lastEvent.target].exclusive
  /\ checked[lastEvent.target]
  /\ \E j \in lastEvent.unchecked : inputs[j].exclusive
  /\ \E k \in Inputs \ {lastEvent.target} :
       /\ ~inputs[k].exclusive /\ checked[k]
       /\ SameName(lastEvent.target, k) /\ SameForm(lastEvent.target, k)

\* C3 as stated: init promotes data-aria-controls to aria-controls for every
\* checkbox of the module whose data-aria-controls names an existing element,
\* and leaves the attributes of every other checkbox of the module (attribute
\* missing, empty, or naming no element) exactly as they were.
C3_Promotion ==
  [][CheckboxesInit =>
       \A i \in Inputs : inputs[i].inModule =>
         IF ~Falsy(dataAriaControls[i]) /\ ElementExists(dataAriaControls[i])
         THEN /\ ariaControls'[i] = dataAriaControls[i]
              /\ dataAriaControls'[i] = Null
         ELSE /\ dataAriaControls'[i] = dataAriaControls[i]
              /\ ariaControls'[i] = ariaControls[i]
              /\ ariaExpanded'[i] = ariaExpanded[i]]_vars

\* C3 amended: init promotes data-aria-controls to aria-controls for every
\* checkbox of the module whose data-aria-controls names an existing element,
\* and leaves data-aria-controls and aria-controls of every other checkbox of
\* the module (attribute missing, empty, or naming no element) as they were;
\* its aria-expanded is as it was too, unless the checkbox already carries an
\* aria-controls that names a conditional element, and then aria-expanded
\* spells its checked value.
C3_PromotionExpandedSynced ==
  [][CheckboxesInit =>
       \A i \in Inputs : inputs[i].inModule =>
         IF ~Falsy(dataAriaControls[i]) /\ ElementExists(dataAriaControls[i])
         THEN /\ ariaControls'[i] = dataAriaControls[i]
              /\ dataAriaControls'[i] = Null
         ELSE /\ dataAriaControls'[i] = dataAriaControls[i]
              /\ ariaControls'[i] = ariaControls[i]
              /\ ariaExpanded'[i] = IF Reveals(i) THEN BoolToString(checked[i])
                                    ELSE ariaExpanded[i]]_vars

\* init has run, and no event since, on a page whose markup gives the
\* checkboxes aria-controls and no data-aria-controls (a checkbox outside the
\* module still carries its aria-controls and has no aria-expanded): a checked
\* checkbox of the module kept both attributes and has aria-expanded "true".
C3_Witness ==
  /\ cbPhase = "initialised"
  /\ clickListener
  /\ lastEvent = NoEvent
  /\ \E j \in Inputs \ thisInputs :
       /\ dataAriaControls[j] = Null
       /\ ariaControls[j] = IdOf(j)
       /\ ariaExpanded[j] = Null
  /\ \E i \in thisInputs :
       /\ dataAriaControls[i] = Null
       /\ ariaControls[i] = IdOf(i)
       /\ Reveals(i)
       /\ checked[i]
       /\ ariaExpanded[i] = "true"

\* C4 as stated: after init and any handled click, every checkbox of the
\* module that controls a conditional reveal has aria-expanded equal to its
\* checked value, and the reveal is hidden exactly when it is unchecked.
C4_RevealInSync ==
  (cbPhase = "initialised" /\ lastEvent.type = "click") =>
    \A i \in thisInputs : Reveals(i) =>
      /\ ariaExpanded[i] = BoolToString(checked[i])
      /\ conditionalHidden[ariaControls[i]] = ~checked[i]

\* C4 amended: after init and any handled event, every checkbox of the module
\* that controls a conditional reveal has aria-expanded equal to its checked
\* value, and the reveal is hidden exactly when it is unchecked provided no
\* other checkbox controls the same element.
C4_RevealInSyncSoleController ==
  cbPhase = "initialised" =>
    \A i \in thisInputs : Reveals(i) =>
      /\ ariaExpanded[i] = BoolToString(checked[i])
      /\ SoleController(i) => conditionalHidden[ariaControls[i]] = ~checked[i]

\* A click checked an exclusive checkbox; a checkbox of the module that the
\* handler unchecked has its own reveal hidden and aria-expanded "false".
C4_Witness ==
  /\ lastEvent.type = "click"
  /\ \E j \in lastEvent.unchecked :
       /\ j \in thisInputs
       /\ Reveals(j) /\ SoleController(j)
       /\ ~checked[j]
       /\ ariaExpanded[j] = "false"
       /\ conditionalHidden[ariaControls[j]]

\* The ServiceHeader constructor has finished, by returning or by throwing.
HeaderConstructed == sh.phase \in {"constructed", "threw"}

\* The Checkboxes constructor has finished.
CheckboxesConstructed == cbPhase \in {"constructed", "initialised"}

\* The menu element named by the button's aria-controls is in the document.
MenuExists == page.ariaControls = MenuId

\* C5 as stated: in a supported browser the ServiceHeader constructor throws
\* ElementError whenever the root, the toggle button, its aria-controls, the
\* menu it names or the tablet breakpoint is absent, and the Checkboxes
\* constructor throws on a missing root or a root without checkbox inputs.
C5_ThrowsWheneverAbsent ==
  /\ (HeaderConstructed /\ page.support = "OK"
        /\ (\/ ~page.module
            \/ ~page.menuButton
            \/ Falsy(page.ariaControls)
            \/ ~MenuExists
            \/ Falsy(page.breakpoint)))
       => sh.thrown = "ElementError"
  /\ (CheckboxesConstructed
        /\ (~moduleIsElement \/ \A i \in Inputs : ~inputs[i].inModule))
       => cbResult = "threw"

\* C5 amended: in a supported browser the ServiceHeader constructor throws
\* ElementError exactly when the root is absent, or the toggle button is
\* present and its aria-controls, the menu it names or the tablet breakpoint
\* is absent; without a toggle button it returns without registering a
\* listener.  The Checkboxes constructor never throws: on a missing root or a
\* root without checkbox inputs it returns an instance without $module and
\* $inputs, on which init registers no listener.
C5_ThrowsOrReturnsInert ==
  /\ (HeaderConstructed /\ page.support = "OK") =>
       /\ sh.thrown = "ElementError" <=>
            \/ ~page.module
            \/ /\ page.menuButton
               /\ \/ Falsy(page.ariaControls)
                  \/ ~MenuExists
                  \/ Falsy(page.breakpoint)
       /\ sh.thrown \in {Null, "ElementError"}
       /\ (page.module /\ ~page.menuButton) =>
            /\ sh.phase = "constructed"
            /\ ~sh.clickListener /\ sh.changeListener = Null
  /\ CheckboxesConstructed =>
       /\ cbResult = "returned"
       /\ (~moduleIsElement \/ \A i \in Inputs : ~inputs[i].inModule) =>
            /\ ~thisModule /\ thisInputs = {}
            /\ ~clickListener /\ ~pageshowListener

\* The constructor threw ElementError because the button's aria-controls
\* names no element of the document.
C5_Witness ==
  /\ sh.phase = "threw"
  /\ sh.thrown = "ElementError"
  /\ page.module /\ page.menuButton
  /\ page.ariaControls = "no-such-id"
  /\ ~Falsy(page.breakpoint)

\* C6: the constructor throws SupportError exactly when the support level
\* message is not 'OK', and checkSupport has run exactly once from the end of
\* the construction on, whatever events were handled since.
C6_SupportCheckedOnce ==
  /\ sh.phase = "new" => sh.supportChecks = 0
  /\ HeaderConstructed =>
       /\ sh.thrown = "SupportError" <=> page.support # "OK"
       /\ sh.supportChecks = 1

\* A constructed header has handled clicks and a media-query change and the
\* support check has still run once.
C6_Witness ==
  /\ sh.phase = "constructed"
  /\ sh.handled = "change"
  /\ sh.menuIsOpen
  /\ sh.supportChecks = 1

\* C7: a construction that ends by throwing leaves the hidden attributes of
\* menu and button and the button's aria-expanded as they were and registers
\* no click and no media-query listener; they stay so afterwards.
C7_FailFast ==
  [][sh'.phase = "threw" =>
       /\ menuHidden' = menuHidden
       /\ buttonHidden' = buttonHidden
       /\ buttonAriaExpanded' = buttonAriaExpanded
       /\ ~sh'.clickListener
       /\ sh'.changeListener = Null]_vars

\* The constructor threw for the missing breakpoint in a narrow viewport, with
\* everything else present, and the menu is still shown and the button hidden.
C7_Witness ==
  /\ sh.phase = "threw"
  /\ sh.thrown = "ElementError"
  /\ page.module /\ page.menuButton /\ MenuExists
  /\ Falsy(page.breakpoint)
  /\ ~viewportWide
  /\ ~menuHidden /\ buttonHidden

\* The constructor found the button and the menu and returned.
HeaderReady == sh.phase = "constructed" /\ sh.menuButton /\ sh.menu

\* C8: once constructed with its button and menu, whenever the media query
\* matches the menu is not hidden and the menu button is hidden.
C8_WideViewport ==
  (HeaderReady /\ viewportWide) => (~menuHidden /\ buttonHidden)

\* The menu was opened by a click and the viewport then became wide.
C8_Witness ==
  /\ HeaderReady
  /\ viewportWide
  /\ sh.menuIsOpen
  /\ sh.handled = "change"

\* C9: once constructed with its button and menu, whenever the media query
\* does not match the button is not hidden, aria-expanded spells menuIsOpen
\* and the menu is hidden exactly when menuIsOpen is false; before any event
\* is handled menuIsOpen is false.
C9_NarrowViewport ==
  /\ (HeaderReady /\ ~viewportWide) =>
       /\ ~buttonHidden
       /\ buttonAriaExpanded = BoolToString(sh.menuIsOpen)
       /\ menuHidden = ~sh.menuIsOpen
  /\ (HeaderReady /\ ~viewportWide /\ sh.handled = "none") =>
       /\ menuHidden
       /\ buttonAriaExpanded = "false"

\* In a narrow viewport a click has opened the menu.
C9_Witness ==
  /\ HeaderReady
  /\ ~viewportWide
  /\ sh.handled = "click"
  /\ sh.menuIsOpen
  /\ ~menuHidden
  /\ buttonAriaExpanded = "true"

\* The position of the last fixture called name.
LastIndexOf(name) ==
  CHOOSE i \in 1..Len(fixtures) :
    /\ fixtures[i].name = name
    /\ \A j \in (i + 1)..Len(fixtures) : fixtures[j].name # name

\* C10: when getExamples goes through the fixtures list and returns, the keys
\* of the returned object are exactly the names in the list, and the value of
\* each name is the options of the last fixture of that name.
C10_ExamplesByName ==
  [][GetExamplesResume =>
       /\ ObjectKeys(examples'.object) = {fixtures[i].name : i \in 1..Len(fixtures)}
       /\ \A name \in ObjectKeys(examples'.object) :
            examples'.object[name] = fixtures[LastIndexOf(name)].options]_vars

\* getExamples returned for a list in which two fixtures share a name and
\* differ in their options, the later of them appended while getExamples was
\* awaiting; the name has the options of the later one.
C10_Witness ==
  /\ examples.phase = "returned"
  /\ Len(examples.read) > Len(examples.atCall)
  /\ \E i, j \in 1..Len(examples.read) :
       /\ i < j
       /\ i <= Len(examples.atCall) /\ j > Len(examples.atCall)
       /\ examples.read[i].name = examples.read[j].name
       /\ examples.read[i].options # examples.read[j].options
       /\ examples.object[examples.read[i].name] = examples.read[j].options

\* C11: filterPath returns true exactly when the entry path matches every
\* pattern of the list (so for the empty list), and mapPathTo returns the
\* callback's value for the parsed path exactly then and the entry path
\* itself otherwise.
C11_EveryPattern ==
  LET matchesAll == \A i \in 1..Len(patterns) : Minimatch(entryPath, patterns[i]) IN
  /\ pathResult.filtered \in {{}, {matchesAll}}
  /\ pathResult.mapped \in
       {{}, {IF matchesAll THEN Callback(callback, parse(entryPath)) ELSE entryPath}}

\* Both were called on a path that matches the first of two patterns and not
\* the second: the filter said false and the mapper returned the path.
C11_Witness ==
  /\ Len(patterns) = 2
  /\ Minimatch(entryPath, patterns[1])
  /\ ~Minimatch(entryPath, patterns[2])
  /\ pathResult.filtered = {FALSE}
  /\ pathResult.mapped = {entryPath}

\* Every checkbox named n is in the initialised module and all of them have
\* one form owner.
GroupInModule(n) ==
  /\ clickListener
  /\ \A i, j \in Inputs :
       (inputs[i].name = n /\ inputs[j].name = n) =>
         (i \in thisInputs /\ SameForm(i, j))

\* No exclusive checkbox named n is checked together with another checkbox
\* named n.
Exclusion(n) ==
  \A i, j \in Inputs :
    (i # j /\ inputs[i].name = n /\ inputs[j].name = n /\ inputs[i].exclusive)
      => ~(checked[i] /\ checked[j])

\* C12: for a name whose checkboxes are all in the initialised module with
\* one form owner, no step leads from a state in which no exclusive checkbox
\* is checked together with another checkbox of the name to a state in which
\* one is.
C12_MutualExclusion ==
  [][\A n \in Names : (GroupInModule(n) /\ Exclusion(n)) => Exclusion(n)']_vars

\* Two exclusive checkboxes and a third share name, form and module; a click
\* checked one exclusive checkbox and the handler unchecked the other.
C12_Witness ==
  /\ lastEvent.type = "click"
  /\ lastEvent.target # NotAnInput
  /\ inputs[lastEvent.target].exclusive
  /\ checked[lastEvent.target]
  /\ GroupInModule(inputs[lastEvent.target].name)
  /\ Exclusion(inputs[lastEvent.target].name)
  /\ \E j \in lastEvent.unchecked :
       inputs[j].exclusive /\ SameName(j, lastEvent.target)
  /\ Cardinality({j \in Inputs : SameName(j, lastEvent.target)}) >= 3

\* The reveal of checkbox j, when it has one, is hidden after the step as it
\* was before.
RevealKept(j) ==
  Reveals(j) => conditionalHidden'[ariaControls[j]] = conditionalHidden[ariaControls[j]]

\* C13 as stated: a handled click that checks a checkbox leaves checked,
\* aria-expanded and the hidden state of the reveal of every checkbox with
\* another form owner or another name as they were.
C13_OtherFormOrNameKept ==
  [][\A c \in Inputs : (~checked[c] /\ Click(c)) =>
       \A j \in Inputs \ {c} : (~SameForm(c, j) \/ ~SameName(c, j)) =>
         /\ checked'[j] = checked[j]
         /\ ariaExpanded'[j] = ariaExpanded[j]
         /\ RevealKept(j)]_vars

\* C13 amended: a handled click that checks a checkbox leaves checked and
\* aria-expanded of every checkbox with another form owner or another name
\* as they were, and the hidden state of its reveal too provided no other
\* checkbox controls the same element.
C13_OtherFormOrNameKeptSoleController ==
  [][\A c \in Inputs : (~checked[c] /\ Click(c)) =>
       \A j \in Inputs \ {c} : (~SameForm(c, j) \/ ~SameName(c, j)) =>
         /\ checked'[j] = checked[j]
         /\ ariaExpanded'[j] = ariaExpanded[j]
         /\ SoleController(j) => RevealKept(j)]_vars

\* A click checked an exclusive checkbox and unchecked another one, while a
\* same-named checkbox of another form, with its own reveal, is still checked
\* and its reveal shown.
C13_Witness ==
  /\ lastEvent.type = "click"
  /\ lastEvent.target # NotAnInput
  /\ inputs[lastEvent.target].exclusive
  /\ checked[lastEvent.target]
  /\ lastEvent.unchecked # {}
  /\ \E j \in Inputs :
       /\ SameName(j, lastEvent.target) /\ ~SameForm(j, lastEvent.target)
       /\ checked[j]
       /\ Reveals(j) /\ SoleController(j)
       /\ ariaExpanded[j] = "true"
       /\ ~conditionalHidden[ariaControls[j]]

\* C14 as stated: a handled click that unchecks a checkbox leaves checked,
\* aria-expanded and the hidden state of the reveal of every other checkbox
\* as they were and changes the hidden state of no element but the one the
\* clicked checkbox controls; a handled click on something that is not a
\* checkbox changes nothing of the DOM.
C14_UncheckingChangesNoOther ==
  [][/\ \A c \in Inputs : (checked[c] /\ Click(c)) =>
          /\ \A j \in Inputs \ {c} :
               /\ checked'[j] = checked[j]
               /\ ariaExpanded'[j] = ariaExpanded[j]
               /\ RevealKept(j)
          /\ \A id \in Ids \ {ariaControls[c]} :
               conditionalHidden'[id] = conditionalHidden[id]
          /\ ariaControls' = ariaControls
          /\ dataAriaControls' = dataAriaControls
     /\ ClickElsewhere => Dom' = Dom]_vars

\* C14 amended: a handled click that unchecks a checkbox leaves checked and
\* aria-expanded of every other checkbox as they were, and the hidden state
\* of its reveal too provided no other checkbox controls the same element;
\* the hidden state of no element but the one the clicked checkbox controls
\* changes; a handled click on something that is not a checkbox changes
\* nothing of the DOM.
C14_UncheckingChangesNoOtherSoleController ==
  [][/\ \A c \in Inputs : (checked[c] /\ Click(c)) =>
          /\ \A j \in Inputs \ {c} :
               /\ checked'[j] = checked[j]
               /\ ariaExpanded'[j] = ariaExpanded[j]
               /\ SoleController(j) => RevealKept(j)
          /\ \A id \in Ids \ {ariaControls[c]} :
               conditionalHidden'[id] = conditionalHidden[id]
          /\ ariaControls' = ariaControls
          /\ dataAriaControls' = dataAriaControls
     /\ ClickElsewhere => Dom' = Dom]_vars

\* A click unchecked a checkbox with a reveal, which is now hidden, while an
\* exclusive checkbox of the same name and form is still checked.
C14_Witness ==
  /\ lastEvent.type = "click"
  /\ lastEvent.target # NotAnInput
  /\ ~checked[lastEvent.target]
  /\ Reveals(lastEvent.target)
  /\ conditionalHidden[ariaControls[lastEvent.target]]
  /\ ariaExpanded[lastEvent.target] = "false"
  /\ \E j \in Inputs \ {lastEvent.target} :
       /\ inputs[j].exclusive /\ checked[j]
       /\ SameName(j, lastEvent.target) /\ SameForm(j, lastEvent.target)
       /\ Reveals(j) /\ SoleController(j)
       /\ ~conditionalHidden[ariaControls[j]]

\* C15 as stated: once init has run and a pageshow event has been handled,
\* whatever checked values the browser restored before it, every checkbox of
\* the module that controls a conditional reveal has aria-expanded equal to
\* its checked value and its reveal hidden exactly when it is unchecked.
C15_RestoredInSync ==
  (cbPhase = "initialised" /\ lastEvent.type = "pageshow") =>
    \A i \in thisInputs : Reveals(i) =>
      /\ ariaExpanded[i] = BoolToString(checked[i])
      /\ conditionalHidden[ariaControls[i]] = ~checked[i]

\* C15 amended: once init has run and a pageshow event has been handled,
\* whatever checked values the browser restored before it, every checkbox of
\* the module that controls a conditional reveal has aria-expanded equal to
\* its checked value, and its reveal is hidden exactly when it is unchecked
\* provided no other checkbox controls the same element.
C15_RestoredInSyncSoleController ==
  (cbPhase = "initialised" /\ lastEvent.type = "pageshow") =>
    \A i \in thisInputs : Reveals(i) =>
      /\ ariaExpanded[i] = BoolToString(checked[i])
      /\ SoleController(i) => conditionalHidden[ariaControls[i]] = ~checked[i]

\* The pageshow handler has brought two checkboxes back in sync with checked
\* values that no handler of the component had seen: one now checked with its
\* reveal shown, one now unchecked with its reveal hidden.
C15_Witness ==
  /\ lastEvent.type = "pageshow"
  /\ \E i, j \in lastEvent.synced :
       /\ i \in thisInputs /\ j \in thisInputs
       /\ Reveals(i) /\ SoleController(i)
       /\ Reveals(j) /\ SoleController(j)
       /\ checked[i] /\ ariaExpanded[i] = "true"
       /\ ~conditionalHidden[ariaControls[i]]
       /\ ~checked[j] /\ ariaExpanded[j] = "false"
       /\ conditionalHidden[ariaControls[j]]

\* C16: menuIsOpen is false until the constructor has run and after it; a
\* handled click on the menu button negates it and no other step changes it;
\* when the viewport goes from wide to narrow with menuIsOpen true, the menu
\* is not hidden and aria-expanded is "true" afterwards; and handling a
\* second click right after a click gives menuIsOpen, the hidden attributes
\* of menu and button and aria-expanded the values they had before the first.
C16_MenuIsOpenFollowsClicks ==
  [][/\ sh.phase = "new" => (~sh.menuIsOpen /\ ~sh'.menuIsOpen)
     /\ MenuButtonClick => sh'.menuIsOpen = ~sh.menuIsOpen
     /\ ~MenuButtonClick => sh'.menuIsOpen = sh.menuIsOpen
     /\ (MediaChange /\ HeaderReady /\ viewportWide /\ sh.menuIsOpen) =>
          (~menuHidden' /\ buttonAriaExpanded' = "true")
     /\ MenuButtonClick =>
          LET second == handleMenuButtonClick(Header', viewportWide) IN
          /\ second.this.menuIsOpen = sh.menuIsOpen
          /\ second.menuHidden = menuHidden
          /\ second.buttonHidden = buttonHidden
          /\ second.ariaExpanded = buttonAriaExpanded]_vars

\* The menu was opened by a click; the viewport has since changed and is
\* narrow, and the menu is shown open.
C16_Witness ==
  /\ HeaderReady
  /\ ~viewportWide
  /\ sh.menuIsOpen
  /\ sh.handled = "change"
  /\ ~menuHidden
  /\ ~buttonHidden
  /\ buttonAriaExpanded = "true"

====
